---- MODULE Spec2Model ----
(***************************************************************************)
(* Model of dev/prepare_jvm_release.py: the release-preparation script for *)
(* the JVM packages.  A Python string is a sequence of tokens; the token   *)
(* "/" is the path separator and every other token stands for a run of     *)
(* characters that holds no separator.  The filesystem is a function from  *)
(* absolute node paths (sequences of components, a component being a       *)
(* sequence of tokens) to nodes.                                           *)
(***************************************************************************)
EXTENDS Integers, Sequences, FiniteSets, TLC

VARIABLES
  fs,           \* the filesystem: node path -> [kind, data]
  cwd,          \* the process working directory, a node path
  pc,           \* the statement of main that runs next
  scopes,       \* the open with-blocks of main, innermost last
  err,          \* the exception that ended the run, "" when none did
  exitcode,     \* the exit status of the process, -1 while it runs
  iter,         \* the files a for loop over a glob has still to visit
  log,          \* the calls the run has issued, each with its result
  version,      \* --release-version
  commit_hash,  \* the value main holds in commit_hash
  git_branch,   \* the value main holds in git_branch
  runs,         \* how many runs of main this tree has seen
  clean,        \* the tree before the first run
  prior,        \* how and in which part of main the run before this one ended
  envOk,        \* no subprocess, download or archive has failed this run
  call          \* the last application of a function checked on its own

vars == <<fs, cwd, pc, scopes, err, exitcode, iter, log, version, commit_hash,
          git_branch, runs, clean, prior, envOk, call>>

\* ------------------------------------------------------------------ bounds

\* Longest path string drawn for normpath and for maybe_makedirs.
MaxPathLen == 4
\* Longest ref-decoration text drawn for get_current_git_branch.
MaxTextLen == 4
\* Calls of maybe_makedirs made in a row on one tree.
MaxCalls == 2
\* Runs of main made in a row on one tree (a first run and its reruns).
MaxRuns == 2

\* ----------------------------------------------------------------- strings

SEP == "/"

MinOf(S) == CHOOSE k \in S : \A j \in S : k <= j

MaxOf(S) == CHOOSE k \in S : \A j \in S : j <= k

IsPrefix(p, s) == Len(p) <= Len(s) /\ SubSeq(s, 1, Len(p)) = p

RECURSIVE Seqs(_, _)
\* Every sequence over alphabet of length at most n.
Seqs(alphabet, n) ==
  IF n = 0 THEN {<<>>}
  ELSE {<<>>} \cup {<<c>> \o s : c \in alphabet, s \in Seqs(alphabet, n - 1)}

\* Indices of the separators of a string.
SepAt(s) == {i \in 1..Len(s) : s[i] = SEP}

RECURSIVE Split(_)
\* str.split("/"): n separators give n + 1 components, empty ones included.
Split(s) ==
  IF SepAt(s) = {} THEN <<s>>
  ELSE <<SubSeq(s, 1, MinOf(SepAt(s)) - 1)>>
       \o Split(SubSeq(s, MinOf(SepAt(s)) + 1, Len(s)))

\* One step of posixpath.join: b replaces the path when b is absolute, is
\* appended directly when the path is empty or ends in a separator, and is
\* appended after a separator otherwise.
JoinStep(path, b) ==
  IF b # <<>> /\ Head(b) = SEP THEN b
  ELSE IF path = <<>> \/ path[Len(path)] = SEP THEN path \o b
  ELSE path \o <<SEP>> \o b

RECURSIVE JoinFrom(_, _)
JoinFrom(path, rest) ==
  IF rest = <<>> THEN path ELSE JoinFrom(JoinStep(path, Head(rest)), Tail(rest))

\* os.path.join(a, *p)
Join(comps) == JoinFrom(Head(comps), Tail(comps))

\* os.path.isabs on a POSIX host.
isabs(path) == path # <<>> /\ Head(path) = SEP

\* os.path.abspath("/") on a POSIX host.
AbsRoot == <<SEP>>

\* The return statement of normpath, given the joined components.
NativePath(path, normalized) ==
  IF isabs(path) THEN AbsRoot \o normalized ELSE normalized

normpath_dropsRoot(path) == Join(Split(path))

\* normpath(path): "Normalize UNIX path to a native path."
normpath(path) == NativePath(path, Join(Split(path)))

\* The head of posixpath.split: stripped of its trailing separators unless it
\* holds nothing else.
StripHead(head) ==
  IF \A k \in 1..Len(head) : head[k] = SEP THEN head
  ELSE SubSeq(head, 1, MaxOf({k \in 1..Len(head) : head[k] # SEP}))

\* posixpath.split at index i, the last separator of p (0 when it has none).
PSplitAt(p, i) == <<StripHead(SubSeq(p, 1, i)), SubSeq(p, i + 1, Len(p))>>

\* posixpath.split: <<head, tail>>
PSplit(p) == PSplitAt(p, IF SepAt(p) = {} THEN 0 ELSE MaxOf(SepAt(p)))

\* posixpath.basename
Basename(p) == PSplit(p)[2]

\* -------------------------------------------------------------- filesystem

Root == <<>>

DirNode == [kind |-> "dir", data |-> <<>>]

FileNode(data) == [kind |-> "file", data |-> data]

Exists(f, n) == n \in DOMAIN f

IsDir(f, n) == n \in DOMAIN f /\ f[n].kind = "dir"

Parent(n) == SubSeq(n, 1, Len(n) - 1)

\* The node path of plain names.
N(names) == [i \in 1..Len(names) |-> <<names[i]>>]

\* The outcome of a call on the filesystem: the tree it leaves and the errno
\* or exception it raises ("" when it returns).
Result(f, e) == [fs |-> f, err |-> e]

\* One component of a path walk: empty and "." stay, ".." goes up.
WalkStep(n, comp) ==
  IF comp = <<>> \/ comp = <<".">> THEN n
  ELSE IF comp = <<"..">> THEN (IF n = Root THEN Root ELSE Parent(n))
  ELSE Append(n, comp)

RECURSIVE WalkFrom(_, _)
WalkFrom(n, comps) ==
  IF comps = <<>> THEN n ELSE WalkFrom(WalkStep(n, Head(comps)), Tail(comps))

\* The node a path string names, seen from working directory c.
Resolve(c, path) == WalkFrom(IF isabs(path) THEN Root ELSE c, Split(path))

\* The proper ancestors of n (by length) that are no directory.
BadAncestors(f, n) == {i \in 0..(Len(n) - 1) : ~IsDir(f, SubSeq(n, 1, i))}

\* The error of walking to node n: its nearest missing ancestor gives ENOENT,
\* an ancestor that is a file gives ENOTDIR.
LookupErr(f, n) ==
  IF BadAncestors(f, n) = {} THEN ""
  ELSE IF Exists(f, SubSeq(n, 1, MinOf(BadAncestors(f, n)))) THEN "ENOTDIR"
  ELSE "ENOENT"

\* The error of stat on node n.
StatErr(f, n) ==
  IF LookupErr(f, n) # "" THEN LookupErr(f, n)
  ELSE IF ~Exists(f, n) THEN "ENOENT" ELSE ""

\* os.path.exists
PathExists(f, c, path) == path # <<>> /\ StatErr(f, Resolve(c, path)) = ""

NodeIsDir(f, n) == LookupErr(f, n) = "" /\ IsDir(f, n)

\* os.path.isdir
PathIsDir(f, c, path) == path # <<>> /\ NodeIsDir(f, Resolve(c, path))

MkdirAt(f, n) ==
  IF LookupErr(f, n) # "" THEN Result(f, LookupErr(f, n))
  ELSE IF Exists(f, n) THEN Result(f, "EEXIST")
  ELSE Result((n :> DirNode) @@ f, "")

\* os.mkdir: one directory, whose parent must be there; the empty path names
\* nothing.
Mkdir(f, c, path) ==
  IF path = <<>> THEN Result(f, "ENOENT") ELSE MkdirAt(f, Resolve(c, path))

\* The head and tail os.makedirs works on: those of the name, or of its head
\* when the name ends in a separator.
HeadTailOf(split) == IF split[2] = <<>> THEN PSplit(split[1]) ELSE split

HeadTail(name) == HeadTailOf(PSplit(name))

\* os.makedirs once the ancestors were tried: their error is raised unless it
\* is FileExistsError, a tail "." is done, the leaf is made by os.mkdir.
MakeLeaf(up, c, name, tail) ==
  IF up.err # "" /\ up.err # "EEXIST" THEN up
  ELSE IF tail = <<".">> THEN Result(up.fs, "")
  ELSE Mkdir(up.fs, c, name)

RECURSIVE makedirs(_, _, _)

MakedirsOf(f, c, name, ht) ==
  IF ht[1] # <<>> /\ ht[2] # <<>> /\ ~PathExists(f, c, ht[1])
  THEN MakeLeaf(makedirs(f, c, ht[1]), c, name, ht[2])
  ELSE Mkdir(f, c, name)

\* os.makedirs(name) with exist_ok=False: the missing ancestors first, then
\* the leaf, whose error is raised as it is.
makedirs(f, c, name) == MakedirsOf(f, c, name, HeadTail(name))

\* The except clause of maybe_makedirs: errno EEXIST is swallowed, every other
\* OSError is raised again.
ExceptEEXIST(r) == IF r.err # "" /\ r.err # "EEXIST" THEN r ELSE Result(r.fs, "")

maybe_makedirs_raisesAll(f, c, path) == makedirs(f, c, normpath(path))

\* maybe_makedirs(path)
maybe_makedirs(f, c, path) == ExceptEEXIST(makedirs(f, c, normpath(path)))

WriteAt(f, n, data) ==
  IF LookupErr(f, n) # "" THEN Result(f, LookupErr(f, n))
  ELSE IF IsDir(f, n) THEN Result(f, "EISDIR")
  ELSE Result((n :> FileNode(data)) @@ [m \in DOMAIN f \ {n} |-> f[m]], "")

\* The error of opening a path that names no file by its form: the empty
\* path, and a path that ends in a separator (shutil reports the directory
\* it asks for as missing).
FormErr(f, c, path) ==
  IF path = <<>> THEN "ENOENT"
  ELSE IF path[Len(path)] = SEP /\ LookupErr(f, Resolve(c, path)) = ""
          /\ ~IsDir(f, Resolve(c, path))
    THEN "ENOENT"
  ELSE ""

\* open(path, "wb") and the write of data: the file is created or truncated.
WriteFile(f, c, path, data) ==
  IF FormErr(f, c, path) # "" THEN Result(f, FormErr(f, c, path))
  ELSE WriteAt(f, Resolve(c, path), data)

ReadErrAt(f, n) ==
  IF StatErr(f, n) # "" THEN StatErr(f, n)
  ELSE IF IsDir(f, n) THEN "EISDIR" ELSE ""

\* The error of open(path, "rb"), "" when the file opens.
ReadErr(f, c, path) ==
  IF path = <<>> THEN "ENOENT" ELSE ReadErrAt(f, Resolve(c, path))

\* shutil.copyfile(src, to): a file is not copied onto itself; the source is
\* opened before the destination.
copyfile(f, c, src, to) ==
  IF PathExists(f, c, src) /\ PathExists(f, c, to)
     /\ Resolve(c, src) = Resolve(c, to)
    THEN Result(f, "SameFileError")
  ELSE IF ReadErr(f, c, src) # "" THEN Result(f, ReadErr(f, c, src))
  ELSE WriteFile(f, c, to, f[Resolve(c, src)].data)

\* shutil.copy(src, dst): into dst when dst is a directory, onto dst
\* otherwise.
Copy(f, c, src, dst) ==
  copyfile(f, c, src,
           IF PathIsDir(f, c, dst) THEN Join(<<dst, Basename(src)>>) ELSE dst)

\* cp(source, target)
cp(f, c, source, target) == Copy(f, c, normpath(source), normpath(target))

\* shutil.rmtree: the node and everything below it.
Rmtree(f, n) == [m \in {k \in DOMAIN f : ~IsPrefix(n, k)} |-> f[m]]

\* The entries of directory node d whose name starts with prefix.
Matching(f, d, prefix) ==
  {k \in DOMAIN f : Len(k) = Len(d) + 1 /\ IsPrefix(d, k)
                    /\ IsPrefix(prefix, k[Len(k)])}

\* glob.glob(dir + "/" + prefix + "*"): the path strings of the entries of
\* dir whose name starts with prefix; none when dir is no directory.
Glob(f, c, dir, prefix) ==
  IF ~PathIsDir(f, c, dir) THEN {}
  ELSE {dir \o <<SEP>> \o m[Len(m)] : m \in Matching(f, Resolve(c, dir), prefix)}

\* ------------------------------------------------------ git and the regex

\* The characters of a ref decoration: "release_" stands for that word (it
\* overlaps itself nowhere, so it is matched whole or not at all), "1" for a
\* digit, "." for a dot, "x" for any other character of a ref name and ","
\* for what separates two ref names.
Chars == {"release_", "1", ".", "x", ","}

\* The character class [0-9\.]
InClass(ch) == ch = "1" \/ ch = "."

\* Where r"release_[0-9\.]+" matches in text: the word, then at least one
\* character of the class.
MatchStarts(text) ==
  {i \in 1..(Len(text) - 1) : text[i] = "release_" /\ InClass(text[i + 1])}

\* The end of the greedy match that starts at i.
MatchEnd(text, i) ==
  CHOOSE j \in (i + 1)..Len(text) :
    /\ \A k \in (i + 1)..j : InClass(text[k])
    /\ (j = Len(text) \/ ~InClass(text[j + 1]))

MatchAt(text, i) == [found |-> TRUE, group |-> SubSeq(text, i, MatchEnd(text, i))]

NoMatch == [found |-> FALSE, group |-> <<>>]

\* re.search(r"release_[0-9\.]+", text): the leftmost match, taken greedily.
search(text) ==
  IF MatchStarts(text) = {} THEN NoMatch
  ELSE MatchAt(text, MinOf(MatchStarts(text)))

\* Lines 66-68: no match raises ValueError, a match returns m.group(0).
BranchOf(m) ==
  IF ~m.found THEN [err |-> "ValueError", value |-> <<>>]
  ELSE [err |-> "", value |-> m.group]

\* get_current_git_branch() on the output of git log --pretty=%d.
get_current_git_branch(out) == BranchOf(search(out))

\* get_current_commit_hash() on the output of git rev-parse HEAD: its first
\* line.
get_current_commit_hash(out) ==
  IF \A i \in 1..Len(out) : out[i] # "\n" THEN out
  ELSE SubSeq(out, 1, MinOf({i \in 1..Len(out) : out[i] = "\n"}) - 1)

\* ---------------------------------------------------- the program of main

\* One statement of main: the operation, its arguments and its source line.
I(op, a, b, c, line) == [op |-> op, a |-> a, b |-> b, c |-> c, line |-> line]

xgboost4j(use_cuda) == IF use_cuda THEN "xgboost4j-gpu" ELSE "xgboost4j"

xgboost4j_spark(use_cuda) ==
  IF use_cuda THEN "xgboost4j-spark-gpu" ELSE "xgboost4j-spark"

Tracker == <<"..", SEP, "python-package", SEP, "xgboost", SEP, "tracker.py">>

MainResources(flavor) == <<flavor, SEP, "src", SEP, "main", SEP, "resources">>

TestResources(project) == <<project, SEP, "src", SEP, "test", SEP, "resources">>

RegressionDir == <<"..", SEP, "demo", SEP, "CLI", SEP, "regression">>

DataDir == <<"..", SEP, "demo", SEP, "data">>

\* The command lines of the two fixture generators (sys.executable left out).
MapfeatCmd == <<"mapfeat.py">>

MknfoldCmd == <<"mknfold.py", " ", "machine.txt", " ", "1">>

\* for use_cuda in [True, False]: cp(tracker.py, <flavor>/src/main/resources)
CopyTracker ==
  [i \in 1..2 |->
     I("cp", Tracker, MainResources(xgboost4j(i = 1)), <<>>, 97)]

CopyTestResources_allToFour(use_cuda) ==
  << I("mk", TestResources(xgboost4j(use_cuda)), <<>>, <<>>, 109),
     I("mk", TestResources(xgboost4j_spark(use_cuda)), <<>>, <<>>, 110),
     I("glob", DataDir, <<"agaricus.">>, <<>>, 111),
     I("cp_each", <<>>, <<>>,
       <<TestResources(xgboost4j(use_cuda)),
         TestResources(xgboost4j_spark(use_cuda))>>, 112),
     I("glob", RegressionDir, <<"machine.txt.t">>, <<>>, 114),
     I("cp_each", <<>>, <<>>,
       <<TestResources(xgboost4j(use_cuda)),
         TestResources(xgboost4j_spark(use_cuda))>>, 115) >>

\* One turn of the loop of lines 106-115.
CopyTestResources(use_cuda) ==
  << I("mk", TestResources(xgboost4j(use_cuda)), <<>>, <<>>, 109),
     I("mk", TestResources(xgboost4j_spark(use_cuda)), <<>>, <<>>, 110),
     I("glob", DataDir, <<"agaricus.">>, <<>>, 111),
     I("cp_each", <<>>, <<>>,
       <<TestResources(xgboost4j(use_cuda)),
         TestResources(xgboost4j_spark(use_cuda))>>, 112),
     I("glob", RegressionDir, <<"machine.txt.t">>, <<>>, 114),
     I("cp_each", <<>>, <<>>,
       <<TestResources(xgboost4j_spark(use_cuda))>>, 115) >>

\* The (os_ident, arch) list of the standard build, lines 118-124.
StandardTargets ==
  << <<"linux", "x86_64">>, <<"linux", "aarch64">>, <<"windows", "x86_64">>,
     <<"macos", "x86_64">>, <<"macos", "aarch64">> >>

\* The (os_ident, arch) list of the GPU build, line 127.
GpuTargets == << <<"linux", "x86_64">> >>

\* output_dir of lines 125 and 128
output_dir(flavor, t) ==
  MainResources(flavor) \o <<SEP, "lib", SEP, t[1], SEP, t[2]>>

CreateNativeDirs_skipsLast ==
  [i \in 1..(Len(StandardTargets) - 1) |->
     I("mk", output_dir("xgboost4j", StandardTargets[i]), <<>>, <<>>, 126)]
  \o [i \in 1..Len(GpuTargets) |->
        I("mk", output_dir("xgboost4j-gpu", GpuTargets[i]), <<>>, <<>>, 129)]

\* The two loops of lines 118-129.
CreateNativeDirs ==
  [i \in 1..Len(StandardTargets) |->
     I("mk", output_dir("xgboost4j", StandardTargets[i]), <<>>, <<>>, 126)]
  \o [i \in 1..Len(GpuTargets) |->
        I("mk", output_dir("xgboost4j-gpu", GpuTargets[i]), <<>>, <<>>, 129)]

nightly_bucket_prefix ==
  "https://s3-us-west-2.amazonaws.com/xgboost-nightly-builds"

maven_repo_prefix ==
  "https://s3-us-west-2.amazonaws.com/xgboost-maven-repo/release/ml/dmlc"

NightlyUrl_noCommit(branch, commit, stem, ext) ==
  <<nightly_bucket_prefix, "/">> \o branch \o <<"/", "libxgboost4j", "/", stem>>
  \o <<ext>>

\* f"{nightly_bucket_prefix}/{git_branch}/libxgboost4j/<stem>{commit_hash}<ext>"
NightlyUrl(branch, commit, stem, ext) ==
  <<nightly_bucket_prefix, "/">> \o branch \o <<"/", "libxgboost4j", "/", stem>>
  \o commit \o <<ext>>

\* The five retrieve calls of lines 139-158.
DownloadNative(branch, commit) ==
  << I("retrieve", NightlyUrl(branch, commit, "xgboost4j_", ".dll"),
       output_dir("xgboost4j", <<"windows", "x86_64">>)
         \o <<SEP, "xgboost4j.dll">>, <<>>, 139),
     I("retrieve",
       NightlyUrl(branch, commit, "libxgboost4j_linux_x86_64_", ".so"),
       output_dir("xgboost4j", <<"linux", "x86_64">>)
         \o <<SEP, "libxgboost4j.so">>, <<>>, 143),
     I("retrieve",
       NightlyUrl(branch, commit, "libxgboost4j_linux_arm64_", ".so"),
       output_dir("xgboost4j", <<"linux", "aarch64">>)
         \o <<SEP, "libxgboost4j.so">>, <<>>, 147),
     I("retrieve", NightlyUrl(branch, commit, "libxgboost4j_", ".dylib"),
       output_dir("xgboost4j", <<"macos", "x86_64">>)
         \o <<SEP, "libxgboost4j.dylib">>, <<>>, 151),
     I("retrieve", NightlyUrl(branch, commit, "libxgboost4j_m1_", ".dylib"),
       output_dir("xgboost4j", <<"macos", "aarch64">>)
         \o <<SEP, "libxgboost4j.dylib">>, <<>>, 155) >>

\* f"{maven_repo_prefix}/xgboost4j-gpu_2.12/{version}/xgboost4j-gpu_2.12-{version}.jar"
MavenUrl(ver) ==
  <<maven_repo_prefix, "/", "xgboost4j-gpu_2.12", "/", ver, "/",
    "xgboost4j-gpu_2.12-", ver, ".jar">>

zip_path(tempdir) == Join(<<tempdir, <<"xgboost4j-gpu_2.12.jar">>>>)

extract_dir(tempdir) == Join(<<tempdir, <<"xgboost4j-gpu">>>>)

\* The path of the GPU binary inside the archive, line 173.
LibInJar == << <<"lib">>, <<"linux">>, <<"x86_64">>, <<"libxgboost4j.so">> >>

\* The with tempfile.TemporaryDirectory() block of lines 160-175.
GpuFromArchive(ver, tempdir) ==
  << I("tmp", <<>>, <<>>, <<>>, 160),
     I("retrieve", MavenUrl(ver), zip_path(tempdir), <<>>, 164),
     I("mkdir", extract_dir(tempdir), <<>>, <<>>, 169),
     I("extract", zip_path(tempdir), extract_dir(tempdir), <<>>, 170),
     I("cp", Join(<<extract_dir(tempdir)>> \o LibInJar),
       output_dir("xgboost4j-gpu", <<"linux", "x86_64">>)
         \o <<SEP, "libxgboost4j.so">>, <<>>, 172),
     I("tmp_exit", <<>>, <<>>, <<>>, 175) >>

\* main(), statement by statement, with its loops over fixed lists unrolled.
Main(ver, commit, branch, tempdir) ==
  << I("git_hash", <<>>, <<>>, <<>>, 87),
     I("git_branch", <<>>, <<>>, <<>>, 88),
     I("cd", <<"jvm-packages", SEP>>, <<>>, <<>>, 93) >>
  \o CopyTracker
  \o << I("cd", RegressionDir, <<>>, <<>>, 103),
        I("run", MapfeatCmd, <<>>, <<>>, 104),
        I("run", MknfoldCmd, <<>>, <<>>, 105),
        I("cd_exit", <<>>, <<>>, <<>>, 105) >>
  \o CopyTestResources(TRUE)
  \o CopyTestResources(FALSE)
  \o CreateNativeDirs
  \o DownloadNative(branch, commit)
  \o GpuFromArchive(ver, tempdir)
  \o << I("cd_exit", <<>>, <<>>, <<>>, 175),
        I("print", <<"====Next Steps====">>, <<>>, <<>>, 177) >>

\* The number of statements of main: the same for every input.
ProgLen == Len(Main("", <<>>, <<>>, <<>>))

\* ------------------------------------------------- the statements' effects

\* A state of a run of main: st.scopes holds the open with-blocks, innermost
\* last; st.iter the files a for loop over a glob has still to visit; st.log
\* the calls issued so far, each with its result ("" when it returned).
Entry(op, a, b, res) == [op |-> op, a |-> a, b |-> b, res |-> res]

Logged(st, op, a, b, res) == [st EXCEPT !.log = @ \cup {Entry(op, a, b, res)}]

Advance(st) == [st EXCEPT !.pc = @ + 1]

cd_exit_keepsCwd(current, saved) == current

\* The finally clause of cd: os.chdir(cwd), cwd being the directory saved on
\* entry.
cd_exit(current, saved) == saved

tmp_cleanup_leaves(f, dir) == f

\* TemporaryDirectory.__exit__: the directory and all it holds are removed.
tmp_cleanup(f, dir) == Rmtree(f, Resolve(Root, dir))

\* Leaving with-block top, normally or by an exception.
Close(st, top) ==
  IF top.kind = "cd"
  THEN [st EXCEPT !.cwd = cd_exit(st.cwd, top.saved),
                  !.scopes = SubSeq(@, 1, Len(@) - 1)]
  ELSE [st EXCEPT !.fs = tmp_cleanup(st.fs, top.dir),
                  !.scopes = SubSeq(@, 1, Len(@) - 1)]

CloseScope(st) == Close(st, st.scopes[Len(st.scopes)])

RECURSIVE Unwind(_)
\* An exception leaves every open with-block, innermost first.
Unwind(st) == IF st.scopes = <<>> THEN st ELSE Unwind(CloseScope(st))

\* An exception that main does not catch: the with-blocks are left and the
\* run is over.
Raise(st, e) == [Unwind(st) EXCEPT !.err = e]

\* The tempdir of the open TemporaryDirectory block, "" outside one.
TempDir(st) ==
  IF \A i \in 1..Len(st.scopes) : st.scopes[i].kind # "tmp" THEN <<>>
  ELSE st.scopes[CHOOSE i \in 1..Len(st.scopes) : st.scopes[i].kind = "tmp"].dir

\* A call that returned r: its tree stands, it is logged with its result, and
\* its error, if any, is raised.
After(st, op, a, b, r) ==
  IF r.err # ""
  THEN Raise(Logged([st EXCEPT !.fs = r.fs], op, a, b, r.err), r.err)
  ELSE Advance(Logged([st EXCEPT !.fs = r.fs], op, a, b, ""))

\* os.chdir: the error of changing to node n.
ChdirErr(f, n) ==
  IF StatErr(f, n) # "" THEN StatErr(f, n)
  ELSE IF ~IsDir(f, n) THEN "ENOTDIR" ELSE ""

\* The body of cd up to its yield: cwd is saved, then os.chdir(path).
Chdir(st, path, n) ==
  IF ChdirErr(st.fs, n) # ""
  THEN Raise(Logged(st, "cd", path, <<>>, ChdirErr(st.fs, n)), ChdirErr(st.fs, n))
  ELSE Advance([Logged(st, "cd", path, <<>>, "") EXCEPT
         !.cwd = n,
         !.scopes = Append(@, [kind |-> "cd", saved |-> st.cwd, dir |-> <<>>])])

\* with cd(path):
ExecCd(st, ins) == Chdir(st, normpath(ins.a), Resolve(st.cwd, normpath(ins.a)))

ExecCdExit(st) == Advance(CloseScope(st))

\* cp(source, target) as a statement of main.
ExecCp(st, ins) == After(st, "cp", ins.a, ins.b, cp(st.fs, st.cwd, ins.a, ins.b))

\* maybe_makedirs(path) as a statement of main.
ExecMk(st, ins) ==
  After(st, "maybe_makedirs", ins.a, <<>>, maybe_makedirs(st.fs, st.cwd, ins.a))

\* os.mkdir(extract_dir)
ExecMkdir(st, ins) == After(st, "mkdir", ins.a, <<>>, Mkdir(st.fs, st.cwd, ins.a))

\* What a fixture generator that exits 0 leaves in the working directory,
\* as main names it: mapfeat.py the machine.txt that line 105 hands to
\* mknfold.py, and mknfold.py two files that the glob machine.txt.t* of line
\* 114 finds. The generators are not part of this file; what they write is
\* taken from the use main makes of it.
FixtureOutputs(command) ==
  IF command = MapfeatCmd THEN {<<"machine.txt">>}
  ELSE {<<"machine.txt.t", "rain">>, <<"machine.txt.t", "est">>}

\* The tree with a file of the given data at each of the nodes.
WithFiles(f, nodes, data) ==
  [n \in DOMAIN f \cup nodes |-> IF n \in nodes THEN FileNode(data) ELSE f[n]]

\* The working directory after the command has run: its outputs are there
\* when it exited 0.
Ran(f, c, command, rc) ==
  IF rc = 0
  THEN WithFiles(f, {Append(c, name) : name \in FixtureOutputs(command)},
                 <<"made by ">> \o command)
  ELSE f

run_unchecked(rc) == ""

\* run(command): subprocess.check_call raises when the command exits
\* non-zero.
run(rc) == IF rc # 0 THEN "CalledProcessError" ELSE ""

ExecRun(st, ins, rc) ==
  After(st, "run", ins.a, IF rc = 0 THEN <<"exit 0">> ELSE <<"exit 1">>,
        Result(Ran(st.fs, st.cwd, ins.a, rc), run(rc)))

\* urlretrieve once the URL is open: the file is opened, the body copied; a
\* short body raises with the file left as far as it got.
Fetched(w, resp) ==
  IF w.err = "" /\ resp = "short" THEN Result(w.fs, "ContentTooShortError") ELSE w

\* urlretrieve(url, filename)
urlretrieve(f, c, url, filename, resp) ==
  IF resp = "URLError" THEN Result(f, resp)
  ELSE Fetched(WriteFile(f, c, filename,
                         IF resp = "ok" THEN <<"body of ">> \o url
                         ELSE <<"partial">>), resp)

\* retrieve(url, filename)
ExecRetrieve(st, ins, resp) ==
  After(st, "retrieve", ins.a, ins.b,
        urlretrieve(st.fs, st.cwd, ins.a, ins.b, resp))

\* The entries of the archive the Maven repository serves: the published jar
\* holds lib/linux/x86_64/libxgboost4j.so; "noentry" is a jar that does not.
JarEntries(zip) ==
  IF zip = "ok" THEN {LibInJar} ELSE {<< <<"META-INF">>, <<"MANIFEST.MF">> >>}

\* ZipFile.extract of one entry under node d: its directories are made as
\* needed, then it is written.
ExtractOne(f, d, e) ==
  (d \o e :> FileNode(<<"unzipped">>))
  @@ [n \in DOMAIN f \cup {d \o SubSeq(e, 1, i) : i \in 1..(Len(e) - 1)} |->
        IF n \in DOMAIN f THEN f[n] ELSE DirNode]

RECURSIVE ExtractAll(_, _, _)
\* ZipFile.extractall
ExtractAll(f, d, entries) ==
  IF entries = {} THEN f
  ELSE ExtractAll(ExtractOne(f, d, CHOOSE e \in entries : TRUE), d,
                  entries \ {CHOOSE e \in entries : TRUE})

\* zipfile.ZipFile(zip_path, "r") and extractall(extract_dir)
Unzip(f, c, zip_file, dir, zip) ==
  IF ReadErr(f, c, zip_file) # "" THEN Result(f, ReadErr(f, c, zip_file))
  ELSE IF zip = "BadZipFile" THEN Result(f, zip)
  ELSE Result(ExtractAll(f, Resolve(c, dir), JarEntries(zip)), "")

ExecExtract(st, ins, zip) ==
  After(st, "extract", ins.a, ins.b, Unzip(st.fs, st.cwd, ins.a, ins.b, zip))

\* The tempdir mkdtemp names.
TempPath(name) == <<SEP, "tmp", SEP, name>>

\* with tempfile.TemporaryDirectory() as tempdir: mkdtemp makes a fresh
\* directory under /tmp.
ExecTmp(st, name) ==
  Advance([st EXCEPT
    !.fs = Mkdir(st.fs, Root, TempPath(name)).fs,
    !.scopes = Append(@, [kind |-> "tmp", saved |-> <<>>, dir |-> TempPath(name)])])

ExecTmpExit(st) == Advance(CloseScope(st))

\* for file in glob.glob(...): the glob is evaluated once, on entry.
ExecGlob(st, ins) ==
  Advance([st EXCEPT !.iter = Glob(st.fs, st.cwd, ins.a, ins.b)])

\* A cp inside a loop body: logged, raised when it fails, and the loop goes
\* on otherwise.
AfterCp(st, file, target, r) ==
  IF r.err # ""
  THEN Raise(Logged([st EXCEPT !.fs = r.fs], "cp", file, target, r.err), r.err)
  ELSE Logged([st EXCEPT !.fs = r.fs], "cp", file, target, "")

RECURSIVE CpAll(_, _, _)
\* The body of a for loop over a glob: file is copied to each target in
\* turn, up to the first copy that raises.
CpAll(st, file, targets) ==
  IF targets = <<>> \/ st.err # "" THEN st
  ELSE CpAll(AfterCp(st, file, Head(targets),
                     cp(st.fs, st.cwd, file, Head(targets))),
             file, Tail(targets))

\* One turn of the loop for file, or its end when no file is left.
ExecCpEach(st, ins, file) ==
  IF st.iter = {} THEN Advance(st)
  ELSE CpAll([st EXCEPT !.iter = @ \ {file}], file, ins.c)

\* print("====Next Steps====") and the runbook after it.
ExecPrint(st, ins) == Advance(Logged(st, "print", ins.a, <<>>, ""))

\* The statement at st.pc with every subprocess, download and archive
\* answering well.
ExecNominal(st, ins) ==
  CASE ins.op = "cd" -> ExecCd(st, ins)
    [] ins.op = "cd_exit" -> ExecCdExit(st)
    [] ins.op = "cp" -> ExecCp(st, ins)
    [] ins.op = "run" -> ExecRun(st, ins, 0)
    [] ins.op = "mk" -> ExecMk(st, ins)
    [] ins.op = "glob" -> ExecGlob(st, ins)
    [] ins.op = "cp_each" ->
         ExecCpEach(st, ins, IF st.iter = {} THEN <<>> ELSE CHOOSE x \in st.iter : TRUE)
    [] ins.op = "retrieve" -> ExecRetrieve(st, ins, "ok")
    [] ins.op = "tmp" -> ExecTmp(st, "tmpa")
    [] ins.op = "mkdir" -> ExecMkdir(st, ins)
    [] ins.op = "extract" -> ExecExtract(st, ins, "ok")
    [] ins.op = "tmp_exit" -> ExecTmpExit(st)
    [] ins.op = "print" -> ExecPrint(st, ins)
    [] OTHER -> Advance(st)

RECURSIVE RunOn(_, _, _, _)
\* A run of main to its end, from state st, with every subprocess, download
\* and archive answering well.
RunOn(st, ver, commit, branch) ==
  IF st.err # "" \/ st.pc > ProgLen THEN st
  ELSE RunOn(ExecNominal(st, Main(ver, commit, branch, TempDir(st))[st.pc]),
             ver, commit, branch)

\* ------------------------------------------------------------ the trees

RECURSIVE WithDirs(_, _)
\* The tree f with node n and its ancestors as directories.
WithDirs(f, n) ==
  IF Exists(f, n) THEN f ELSE (n :> DirNode) @@ WithDirs(f, Parent(n))

RECURSIVE WithAllDirs(_, _)
WithAllDirs(f, nodes) ==
  IF nodes = {} THEN f
  ELSE LET n == CHOOSE x \in nodes : TRUE
       IN  WithAllDirs(WithDirs(f, n), nodes \ {n})

\* The directory the tool is started in: the root of the checkout.
StartDir == N(<<"work">>)

JvmDir == N(<<"work", "jvm-packages">>)

Projects == {"xgboost4j", "xgboost4j-gpu", "xgboost4j-spark", "xgboost4j-spark-gpu"}

\* The checkout the script runs on: the tracker, the sample data, the demo
\* directory of the fixture generators and the four JVM projects.
Checkout ==
  LET dirs == {N(<<"tmp">>), N(<<"work", "python-package", "xgboost">>),
               N(<<"work", "demo", "data">>),
               N(<<"work", "demo", "CLI", "regression">>),
               N(<<"work", "jvm-packages", "xgboost4j", "src", "main", "resources">>),
               N(<<"work", "jvm-packages", "xgboost4j-gpu", "src", "main", "resources">>),
               N(<<"work", "jvm-packages", "xgboost4j-spark", "src">>),
               N(<<"work", "jvm-packages", "xgboost4j-spark-gpu", "src">>)}
  IN  (N(<<"work", "python-package", "xgboost", "tracker.py">>)
         :> FileNode(<<"tracker.py">>))
      @@ (Append(N(<<"work", "demo", "data">>), <<"agaricus.", "txt.train">>)
            :> FileNode(<<"agaricus train">>))
      @@ (Append(N(<<"work", "demo", "data">>), <<"agaricus.", "txt.test">>)
            :> FileNode(<<"agaricus test">>))
      @@ WithAllDirs((Root :> DirNode), dirs)

LibNode(flavor, t) ==
  N(<<"work", "jvm-packages", flavor, "src", "main", "resources", "lib", t[1], t[2]>>)

TestNode(project) ==
  N(<<"work", "jvm-packages", project, "src", "test", "resources">>)

\* The native-binary directories main is to fill.
NativeDirs ==
  {LibNode("xgboost4j", StandardTargets[i]) : i \in 1..Len(StandardTargets)}
  \cup {LibNode("xgboost4j-gpu", GpuTargets[i]) : i \in 1..Len(GpuTargets)}

Layouts == {"clean", "prepared", "file at test resources", "file at lib dir",
            "no gpu resources"}

\* The trees a first run may find: the clean checkout; one where an earlier
\* release left every directory; one with a regular file where a test
\* resource directory or a native-binary directory is to be; one whose GPU
\* project has no src/main/resources.
Tree(layout) ==
  IF layout = "prepared"
    THEN WithAllDirs(Checkout, NativeDirs \cup {TestNode(p) : p \in Projects})
  ELSE IF layout = "file at test resources"
    THEN (TestNode("xgboost4j") :> FileNode(<<"stray">>))
         @@ WithDirs(Checkout, Parent(TestNode("xgboost4j")))
  ELSE IF layout = "file at lib dir"
    THEN (LibNode("xgboost4j", <<"linux", "x86_64">>) :> FileNode(<<"stray">>))
         @@ WithDirs(Checkout, Parent(LibNode("xgboost4j", <<"linux", "x86_64">>)))
  ELSE IF layout = "no gpu resources"
    THEN Rmtree(Checkout, Parent(Parent(Parent(LibNode("xgboost4j-gpu", <<"linux", "x86_64">>)))))
  ELSE Checkout

\* ------------------------------------------------------------ the inputs

Versions == {"1.7.0"}

\* What git rev-parse HEAD prints.
RevParseOutputs == {<<"abc123", "\n">>}

\* What git log -n 1 --pretty=%d HEAD prints: a tag and a release branch, or
\* no release branch at all.
Decorations ==
  { <<"x", ",", "release_", "1", ".", "1">>,
    <<"x", ",", "x">> }

\* The names mkdtemp may draw.
TmpNames == {"tmpa", "tmpb"}

\* ------------------------------------------------------------- the run

\* The part of main a source line belongs to, numbered as the steps of the
\* orchestrator: 2 the git queries, 3 the tracker copies, 4 the test
\* resources, 5 the native-binary directories, 6 the nightly downloads, 7
\* the archive, 8 the runbook.
Phase(line) ==
  IF line <= 88 THEN 2
  ELSE IF line <= 100 THEN 3
  ELSE IF line <= 115 THEN 4
  ELSE IF line <= 129 THEN 5
  ELSE IF line <= 158 THEN 6
  ELSE IF line <= 175 THEN 7
  ELSE 8

\* How the run before this one ended, and in which part of main: none on
\* the first run.
NoPrior == [how |-> "none", at |-> 0]

St == [fs |-> fs, cwd |-> cwd, pc |-> pc, scopes |-> scopes, err |-> err,
       iter |-> iter, log |-> log]

Prog == Main(version, commit_hash, git_branch, TempDir(St))

Done == err = "" /\ pc = ProgLen + 1

Failed == err # ""

Running == err = "" /\ pc <= ProgLen

Ins == Prog[pc]

\* The run moves to state s; an exception not caught ends the process with
\* status 1, the end of main with status 0.
Commit(s, nominal) ==
  /\ fs' = s.fs
  /\ cwd' = s.cwd
  /\ pc' = s.pc
  /\ scopes' = s.scopes
  /\ err' = s.err
  /\ iter' = s.iter
  /\ log' = s.log
  /\ exitcode' = IF s.err # "" THEN 1 ELSE IF s.pc = ProgLen + 1 THEN 0 ELSE exitcode
  /\ envOk' = (envOk /\ nominal)
  /\ UNCHANGED <<version, runs, clean, prior, call>>

Init ==
  /\ \E layout \in Layouts : fs = Tree(layout) /\ clean = Tree(layout)
  /\ version \in Versions
  /\ cwd = StartDir
  /\ pc = 1
  /\ scopes = <<>>
  /\ err = ""
  /\ exitcode = -1
  /\ iter = {}
  /\ log = {}
  /\ commit_hash = <<>>
  /\ git_branch = <<>>
  /\ runs = 1
  /\ prior = NoPrior
  /\ envOk = TRUE
  /\ call = [fn |-> "main"]

\* commit_hash = get_current_commit_hash(); git may fail.
GetCommitHash ==
  /\ Running /\ Ins.op = "git_hash"
  /\ \E out \in RevParseOutputs \cup {<<>>} :
       /\ commit_hash' = get_current_commit_hash(out)
       /\ Commit(IF out = <<>> THEN Raise(St, "CalledProcessError") ELSE Advance(St),
                 out # <<>>)
  /\ UNCHANGED git_branch

\* git_branch = get_current_git_branch()
GetGitBranch ==
  /\ Running /\ Ins.op = "git_branch"
  /\ \E out \in Decorations :
       LET r == get_current_git_branch(out)
       IN  /\ git_branch' = r.value
           /\ Commit(IF r.err # "" THEN Raise(St, r.err) ELSE Advance(St),
                     r.err = "")
  /\ UNCHANGED commit_hash

CdEnter ==
  /\ Running /\ Ins.op = "cd"
  /\ Commit(ExecCd(St, Ins), TRUE)
  /\ UNCHANGED <<commit_hash, git_branch>>

CdLeave ==
  /\ Running /\ Ins.op = "cd_exit"
  /\ Commit(ExecCdExit(St), TRUE)
  /\ UNCHANGED <<commit_hash, git_branch>>

CopyFile ==
  /\ Running /\ Ins.op = "cp"
  /\ Commit(ExecCp(St, Ins), TRUE)
  /\ UNCHANGED <<commit_hash, git_branch>>

RunCommand ==
  /\ Running /\ Ins.op = "run"
  /\ \E rc \in {0, 1} : Commit(ExecRun(St, Ins, rc), rc = 0)
  /\ UNCHANGED <<commit_hash, git_branch>>

MakeDirs ==
  /\ Running /\ Ins.op = "mk"
  /\ Commit(ExecMk(St, Ins), TRUE)
  /\ UNCHANGED <<commit_hash, git_branch>>

GlobFiles ==
  /\ Running /\ Ins.op = "glob"
  /\ Commit(ExecGlob(St, Ins), TRUE)
  /\ UNCHANGED <<commit_hash, git_branch>>

CopyEach ==
  /\ Running /\ Ins.op = "cp_each"
  /\ \E file \in (IF iter = {} THEN {<<>>} ELSE iter) :
       Commit(ExecCpEach(St, Ins, file), TRUE)
  /\ UNCHANGED <<commit_hash, git_branch>>

Retrieve ==
  /\ Running /\ Ins.op = "retrieve"
  /\ \E resp \in {"ok", "URLError", "short"} :
       Commit(ExecRetrieve(St, Ins, resp), resp = "ok")
  /\ UNCHANGED <<commit_hash, git_branch>>

TmpEnter ==
  /\ Running /\ Ins.op = "tmp"
  /\ \E name \in TmpNames : Commit(ExecTmp(St, name), TRUE)
  /\ UNCHANGED <<commit_hash, git_branch>>

MakeExtractDir ==
  /\ Running /\ Ins.op = "mkdir"
  /\ Commit(ExecMkdir(St, Ins), TRUE)
  /\ UNCHANGED <<commit_hash, git_branch>>

Extract ==
  /\ Running /\ Ins.op = "extract"
  /\ \E zip \in {"ok", "noentry", "BadZipFile"} :
       Commit(ExecExtract(St, Ins, zip), zip = "ok")
  /\ UNCHANGED <<commit_hash, git_branch>>

TmpLeave ==
  /\ Running /\ Ins.op = "tmp_exit"
  /\ Commit(ExecTmpExit(St), TRUE)
  /\ UNCHANGED <<commit_hash, git_branch>>

PrintNextSteps ==
  /\ Running /\ Ins.op = "print"
  /\ Commit(ExecPrint(St, Ins), TRUE)
  /\ UNCHANGED <<commit_hash, git_branch>>

\* The operator interrupts the run: KeyboardInterrupt is raised at the
\* statement main is at.
Interrupt ==
  /\ Running
  /\ Commit(Raise(St, "KeyboardInterrupt"), FALSE)
  /\ UNCHANGED <<commit_hash, git_branch>>

\* The operator runs the tool again, on the tree the last run left.
Rerun ==
  /\ Done \/ Failed
  /\ runs < MaxRuns
  /\ runs' = runs + 1
  /\ prior' = IF Done THEN [how |-> "done", at |-> 8]
            ELSE [how |-> "aborted", at |-> Phase(Ins.line)]
  /\ cwd' = StartDir
  /\ pc' = 1
  /\ scopes' = <<>>
  /\ err' = ""
  /\ exitcode' = -1
  /\ iter' = {}
  /\ log' = {}
  /\ commit_hash' = <<>>
  /\ git_branch' = <<>>
  /\ envOk' = TRUE
  /\ UNCHANGED <<fs, version, clean, call>>

Next ==
  \/ GetCommitHash \/ GetGitBranch \/ CdEnter \/ CdLeave \/ CopyFile
  \/ RunCommand \/ MakeDirs \/ GlobFiles \/ CopyEach \/ Retrieve \/ TmpEnter
  \/ MakeExtractDir \/ Extract \/ TmpLeave \/ PrintNextSteps \/ Interrupt
  \/ Rerun

Spec == Init /\ [][Next]_vars

\* -------------------------------------------- the functions on their own

\* The run of main stands still while a function is applied on its own.
NoRun ==
  /\ pc = 1 /\ scopes = <<>> /\ err = "" /\ exitcode = -1 /\ iter = {}
  /\ log = {} /\ version = "" /\ commit_hash = <<>> /\ git_branch = <<>>
  /\ runs = 1 /\ prior = NoPrior /\ envOk = TRUE

NoRunVars == <<pc, scopes, err, exitcode, iter, log, version, commit_hash,
               git_branch, runs, clean, prior, envOk>>

\* The characters of the path strings drawn for normpath and maybe_makedirs.
PathChars == {SEP, "a", "b"}

InitNormpath ==
  /\ NoRun
  /\ fs = (Root :> DirNode) /\ clean = fs /\ cwd = Root
  /\ \E p \in Seqs(PathChars, MaxPathLen) :
       call = [fn |-> "normpath", n |-> 0, in |-> p, out |-> <<>>, again |-> <<>>]

\* path = normpath(path)
Normalize ==
  /\ call.n = 0
  /\ call' = [call EXCEPT !.n = 1, !.out = normpath(call.in)]
  /\ UNCHANGED <<fs, cwd>> /\ UNCHANGED NoRunVars

\* normpath applied to a path it has returned.
NormalizeAgain ==
  /\ call.n = 1
  /\ call' = [call EXCEPT !.n = 2, !.again = normpath(call.out)]
  /\ UNCHANGED <<fs, cwd>> /\ UNCHANGED NoRunVars

NextNormpath == Normalize \/ NormalizeAgain

SpecNormpath == InitNormpath /\ [][NextNormpath]_vars

InitBranch ==
  /\ NoRun
  /\ fs = (Root :> DirNode) /\ clean = fs /\ cwd = Root
  /\ \E text \in Seqs(Chars, MaxTextLen) :
       call = [fn |-> "get_current_git_branch", n |-> 0, in |-> text,
               out |-> <<>>, raised |-> ""]

\* get_current_git_branch() on a decoration text.
ResolveBranch ==
  /\ call.n = 0
  /\ call' = [call EXCEPT !.n = 1,
                          !.out = get_current_git_branch(call.in).value,
                          !.raised = get_current_git_branch(call.in).err]
  /\ UNCHANGED <<fs, cwd>> /\ UNCHANGED NoRunVars

NextBranch == ResolveBranch

SpecBranch == InitBranch /\ [][NextBranch]_vars

\* The trees maybe_makedirs is called on: empty; a directory a; a regular
\* file a; a directory a holding a regular file b; directories a and a/b; a
\* regular file a beside a directory b.
SmallTrees ==
  { (Root :> DirNode),
    (Root :> DirNode) @@ (N(<<"a">>) :> DirNode),
    (Root :> DirNode) @@ (N(<<"a">>) :> FileNode(<<"old">>)),
    (Root :> DirNode) @@ (N(<<"a">>) :> DirNode)
      @@ (N(<<"a", "b">>) :> FileNode(<<"old">>)),
    (Root :> DirNode) @@ (N(<<"a">>) :> DirNode) @@ (N(<<"a", "b">>) :> DirNode),
    (Root :> DirNode) @@ (N(<<"a">>) :> FileNode(<<"old">>))
      @@ (N(<<"b">>) :> DirNode) }

\* What is at a path: "dir", "file", "absent", or "unreachable" when an
\* ancestor is missing or is a file.
KindAt(f, c, path) ==
  IF path = <<>> \/ LookupErr(f, Resolve(c, path)) # "" THEN "unreachable"
  ELSE IF ~Exists(f, Resolve(c, path)) THEN "absent"
  ELSE f[Resolve(c, path)].kind

InitMakedirs ==
  /\ NoRun
  /\ fs \in SmallTrees /\ clean = fs /\ cwd = Root
  /\ \E p \in Seqs(PathChars, MaxPathLen) :
       call = [fn |-> "maybe_makedirs", n |-> 0, in |-> p, before |-> "",
               raised |-> "", first |-> ""]

\* maybe_makedirs(path), called again and again on the same path.
CallMaybeMakedirs ==
  /\ call.n < MaxCalls
  /\ fs' = maybe_makedirs(fs, cwd, call.in).fs
  /\ call' = [call EXCEPT !.n = @ + 1,
                          !.before = KindAt(fs, cwd, call.in),
                          !.raised = maybe_makedirs(fs, cwd, call.in).err,
                          !.first = IF call.n = 0
                                    THEN maybe_makedirs(fs, cwd, call.in).err
                                    ELSE @]
  /\ UNCHANGED cwd /\ UNCHANGED NoRunVars

NextMakedirs == CallMaybeMakedirs

SpecMakedirs == InitMakedirs /\ [][NextMakedirs]_vars

\* ------------------------------------------------------------ the claims

\* The calls of the run so far with operation op.
Calls(op) == {e \in log : e.op = op}

\* s holds sub as a contiguous part.
Contains(s, sub) ==
  \E i \in 0..(Len(s) - Len(sub)) : SubSeq(s, i + 1, i + Len(sub)) = sub

\* The operations that main issues only after the fixture generators.
LaterPhaseOps == {"maybe_makedirs", "retrieve", "mkdir", "extract", "print"}

\* C1: once a fixture generator run through run() has exited non-zero, the
\* run has ended with CalledProcessError and exit status 1 at that very
\* statement, and it has issued nothing of a later phase: no maybe_makedirs,
\* no download, no mkdir, no extraction, no runbook, no copy other than the
\* tracker's; when it was mapfeat.py that failed, mknfold.py was not run.
FailFast ==
  (\E e \in Calls("run") : e.b = <<"exit 1">>) =>
    /\ Failed /\ err = "CalledProcessError" /\ exitcode = 1
    /\ Ins.op = "run"
    /\ \A e \in log : e.op \notin LaterPhaseOps
    /\ \A e \in Calls("cp") : e.a = Tracker
    /\ (\E e \in Calls("run") : e.a = MapfeatCmd /\ e.b = <<"exit 1">>) =>
         (\A e \in Calls("run") : e.a # MknfoldCmd)

\* mknfold.py exited non-zero after mapfeat.py had succeeded.
FailFastWitness ==
  /\ \E e \in Calls("run") : e.a = MknfoldCmd /\ e.b = <<"exit 1">>
  /\ \E e \in Calls("run") : e.a = MapfeatCmd /\ e.b = <<"exit 0">>
  /\ exitcode = 1

\* The path strings of the six native-binary directories.
NativeTargets ==
  {output_dir("xgboost4j", StandardTargets[i]) : i \in 1..Len(StandardTargets)}
  \cup {output_dir("xgboost4j-gpu", GpuTargets[i]) : i \in 1..Len(GpuTargets)}

\* Call e puts a native binary into directory d: a retrieve or a cp whose
\* target is a file name directly under d.
WritesInto(e, d) ==
  /\ e.op \in {"retrieve", "cp"}
  /\ Len(e.b) = Len(d) + 2
  /\ IsPrefix(d \o <<SEP>>, e.b)

\* maybe_makedirs(d) has returned in this run.
Ensured(d) == \E e \in Calls("maybe_makedirs") : e.a = d /\ e.res = ""

\* C2: whenever the run has issued a retrieve or a cp that puts a native
\* binary into one of the six lib/<os>/<arch> directories, maybe_makedirs has
\* returned for that directory earlier in the same run; when the write
\* succeeded the directory exists; and a run that reaches its end has
\* written into every one of the six.
EnsuredBeforeWrite ==
  /\ \A d \in NativeTargets : \A e \in log :
       WritesInto(e, d) =>
         /\ Ensured(d)
         /\ (e.res = "" => PathIsDir(fs, JvmDir, d))
  /\ Done => \A d \in NativeTargets : \E e \in log : WritesInto(e, d) /\ e.res = ""

\* A download into macos/aarch64, the last directory made, has been issued,
\* and so has the copy into the GPU directory.
EnsuredBeforeWriteWitness ==
  /\ \E e \in Calls("retrieve") :
       WritesInto(e, output_dir("xgboost4j", <<"macos", "aarch64">>))
  /\ \E e \in Calls("cp") :
       WritesInto(e, output_dir("xgboost4j-gpu", <<"linux", "x86_64">>))

\* The downloads from the nightly bucket.
NightlyDownloads == {e \in Calls("retrieve") : Head(e.a) = nightly_bucket_prefix}

\* The downloads from the Maven repository.
ArchiveDownloads == {e \in Calls("retrieve") : Head(e.a) = maven_repo_prefix}

\* URL u has the branch as its first path segment after the bucket prefix
\* and the commit hash directly before the file extension.
BranchAndCommitInPlace(u) ==
  /\ Len(u) >= 2 + Len(git_branch) + 1
  /\ SubSeq(u, 3, 2 + Len(git_branch)) = git_branch
  /\ u[3 + Len(git_branch)] = "/"
  /\ Len(u) >= Len(commit_hash) + 1
  /\ SubSeq(u, Len(u) - Len(commit_hash), Len(u) - 1) = commit_hash

\* The directories directly under a lib/<os> directory of the two flavors.
LibDirs ==
  {n \in DOMAIN fs :
     /\ IsDir(fs, n)
     /\ Len(n) = 9
     /\ \E flavor \in {"xgboost4j", "xgboost4j-gpu"} :
          IsPrefix(N(<<"work", "jvm-packages", flavor, "src", "main", "resources", "lib">>), n)}

\* C3 (as the code has it): a run of main that reaches its end has called
\* maybe_makedirs for exactly the five standard directories and the one GPU
\* directory, which then are the only lib/<os>/<arch> directories; it has
\* issued exactly six downloads: five from the nightly bucket, whose URLs
\* hold the branch and the commit hash in place, and one of the archive from
\* the Maven repository, whose URL holds the version and neither branch nor
\* commit hash; the archive was extracted once and the GPU binary copied out
\* of it once.
FiveNightlyOneArchive ==
  Done =>
    /\ {e.a : e \in {x \in Calls("maybe_makedirs") : x.a \in NativeTargets}}
         = NativeTargets
    /\ Cardinality(NativeTargets) = 6
    /\ LibDirs = NativeDirs
    /\ Cardinality(Calls("retrieve")) = 6
    /\ Cardinality(NightlyDownloads) = 5
    /\ \A e \in NightlyDownloads : BranchAndCommitInPlace(e.a)
    /\ ArchiveDownloads = {e \in Calls("retrieve") : e.a = MavenUrl(version)}
    /\ Cardinality(ArchiveDownloads) = 1
    /\ \A e \in ArchiveDownloads :
         ~Contains(e.a, commit_hash) /\ ~Contains(e.a, git_branch)
    /\ Cardinality(Calls("extract")) = 1
    /\ Cardinality({e \in Calls("cp") :
                      WritesInto(e, output_dir("xgboost4j-gpu", <<"linux", "x86_64">>))}) = 1

\* A first run on the clean checkout has reached its end.
FiveNightlyOneArchiveWitness ==
  /\ Done /\ runs = 1 /\ clean = Tree("clean")
  /\ Cardinality(NightlyDownloads) = 5
  /\ commit_hash # <<>> /\ git_branch # <<>>

\* C3 as stated: a run that reaches its end has issued exactly six downloads
\* whose URLs hold the commit hash and the branch.
SixDownloadsWithCommitAndBranch ==
  Done =>
    Cardinality({e \in Calls("retrieve") :
                   Contains(e.a, commit_hash) /\ Contains(e.a, git_branch)}) = 6

\* The nodes below /tmp.
TempNodes == {n \in DOMAIN fs : Len(n) >= 2 /\ n[1] = <<"tmp">>}

\* C5: outside the TemporaryDirectory block nothing of the temporary
\* directory is left, whether the block was left at its end or by an
\* exception of the archive download, of os.mkdir, of the extraction or of
\* the copy; inside the block the directory exists.
TempDirRemoved ==
  /\ TempDir(St) = <<>> => TempNodes = {}
  /\ TempDir(St) # <<>> => PathIsDir(fs, Root, TempDir(St))
  /\ (Done \/ Failed) => TempDir(St) = <<>>

\* The block was left by an exception after the archive had been written
\* and extracted into the temporary directory: the copy found no binary.
TempDirRemovedWitness ==
  /\ Failed
  /\ \E e \in ArchiveDownloads : e.res = ""
  /\ \E e \in Calls("extract") : e.res = ""
  /\ \E e \in Calls("cp") : e.res # "" /\ IsPrefix(<<SEP, "tmp">>, e.a)

\* How many cd blocks are open.
CdDepth == Cardinality({i \in 1..Len(scopes) : scopes[i].kind = "cd"})

\* C10: the working directory is the one the tool was started in outside
\* every cd block, jvm-packages inside the outer block alone, and
\* demo/CLI/regression inside the inner one; so leaving a block, at its end
\* or by an exception, puts back the directory of before it, and a run that
\* has ended or aborted is back where it started.
CwdRestored ==
  /\ cwd = CASE CdDepth = 0 -> StartDir
             [] CdDepth = 1 -> JvmDir
             [] OTHER -> N(<<"work", "demo", "CLI", "regression">>)
  /\ (Done \/ Failed) => CdDepth = 0 /\ cwd = StartDir
  /\ \A i \in 1..Len(scopes) :
       scopes[i].kind = "cd" =>
         scopes[i].saved = IF i = 1 THEN StartDir ELSE JvmDir

\* An exception raised inside the inner block has left both blocks.
CwdRestoredWitness ==
  /\ Failed /\ cwd = StartDir
  /\ \E e \in Calls("run") : e.res # ""
  /\ \E e \in Calls("cd") : e.a = RegressionDir /\ e.res = ""

\* The statement count up to the end of the test-resource loop of lines
\* 106-115: git (2), cd (1), the tracker copies, the inner cd block (4), and
\* both turns of the loop.
Phase4End ==
  3 + Len(CopyTracker) + 4 + Len(CopyTestResources(TRUE))
  + Len(CopyTestResources(FALSE))

SparkProjects == {"xgboost4j-spark", "xgboost4j-spark-gpu"}

\* The sample data files and the generated fixtures, as the globs of lines
\* 111 and 114 name them.
AgaricusFiles == Glob(fs, JvmDir, DataDir, <<"agaricus.">>)

MachineFiles == Glob(fs, JvmDir, RegressionDir, <<"machine.txt.t">>)

\* cp(file, <project>/src/test/resources) has been called in this run.
CopyCalled(file, project) ==
  \E e \in Calls("cp") : e.a = file /\ e.b = TestResources(project)

\* That call has returned.
Copied(file, project) ==
  \E e \in Calls("cp") : e.a = file /\ e.b = TestResources(project) /\ e.res = ""

\* The node of file's name in the test-resource directory of project.
InTestResources(file, project) ==
  Append(TestNode(project), Split(file)[Len(Split(file))])

\* Where the test-resource path of project is a directory, it holds a copy
\* of file.
Landed(file, project) ==
  IsDir(fs, TestNode(project)) =>
    /\ Exists(fs, InTestResources(file, project))
    /\ fs[InTestResources(file, project)] = fs[Resolve(JvmDir, file)]

\* No cp has been called with a machine.txt.t* file and the test-resource
\* path of project, and no such file is below that path.
NoFixtures(project) ==
  /\ \A e \in Calls("cp") :
       e.b = TestResources(project) => ~IsPrefix(RegressionDir, e.a)
  /\ Matching(fs, TestNode(project), <<"machine.txt.t">>) = {}

\* C6 (as the code has it): once the loop of lines 106-115 is through, each
\* of the two agaricus.* files has been copied with cp to the test-resource
\* path of all four projects, and each of the two machine.txt.t* files to
\* that of xgboost4j-spark and xgboost4j-spark-gpu only: no cp of a
\* machine.txt.t* file to xgboost4j or xgboost4j-gpu is ever issued, and
\* their test-resource directories hold no such file.
FixturesOnlyToSpark ==
  /\ pc > Phase4End =>
       /\ Cardinality(AgaricusFiles) = 2 /\ Cardinality(MachineFiles) = 2
       /\ \A p \in Projects : \A f \in AgaricusFiles :
            Copied(f, p) /\ Landed(f, p)
       /\ \A p \in SparkProjects : \A f \in MachineFiles :
            Copied(f, p) /\ Landed(f, p)
  /\ \A p \in Projects \ SparkProjects : NoFixtures(p)

\* The loop is through on a tree where all four test-resource paths are
\* directories, and the fixtures are in the spark projects.
FixturesOnlyToSparkWitness ==
  /\ pc > Phase4End /\ err = ""
  /\ \A p \in Projects : IsDir(fs, TestNode(p))
  /\ \A p \in SparkProjects : \A f \in MachineFiles :
       Exists(fs, InTestResources(f, p))
  /\ MachineFiles # {}

\* C6 as stated: once the loop is through, the machine.txt.t* and the
\* agaricus.* files have been copied to the test-resource path of all four
\* projects.
FixturesToAllFour ==
  pc > Phase4End =>
    \A p \in Projects : \A f \in AgaricusFiles \cup MachineFiles : Copied(f, p)

\* A single run of main from the clean tree with the inputs of this run and
\* every subprocess, download and archive answering well.
Ref ==
  RunOn([fs |-> clean, cwd |-> StartDir, pc |-> 3, scopes |-> <<>>, err |-> "",
         iter |-> {}, log |-> {}], version, commit_hash, git_branch)

\* The contents the test-resource copies may leave in a regular file.
CopiedData ==
  {fs[Resolve(JvmDir, f)].data : f \in AgaricusFiles \cup MachineFiles}

\* Trees f and g are the same, but for which of the copied files a regular
\* file that occupied a test-resource path before any run holds: each cp
\* onto it replaces it, so it holds the file that glob listed last.
SameTree(f, g) ==
  /\ DOMAIN f = DOMAIN g
  /\ \A n \in DOMAIN f :
       \/ f[n] = g[n]
       \/ /\ \E p \in Projects : n = TestNode(p)
          /\ clean[n].kind = "file" /\ f[n].kind = "file" /\ g[n].kind = "file"
          /\ f[n].data \in CopiedData /\ g[n].data \in CopiedData

\* C8: a run of main on the tree an earlier run left, aborted in whatever
\* part or run to its end, fails with every subprocess, download and archive
\* answering well only as a single run from the clean tree fails; and when
\* it reaches its end the tree is the one that single run from the clean
\* tree ends in.
RerunSafe ==
  /\ (runs > 1 /\ envOk /\ Failed) => Ref.err = err
  /\ (runs > 1 /\ Done) => Ref.err = "" /\ SameTree(fs, Ref.fs)

\* A rerun has reached its end after a run that aborted in the downloads or
\* in the archive block.
RerunSafeWitness ==
  /\ runs > 1 /\ Done
  /\ prior.how = "aborted" /\ prior.at >= 6

\* C9: for every forward-slash path, normpath(path) is absolute exactly when
\* path is, and normpath applied to what normpath returned returns it
\* unchanged.
NormpathIdempotent ==
  /\ (call.fn = "normpath" /\ call.n >= 1) =>
       (isabs(call.out) <=> isabs(call.in))
  /\ (call.fn = "normpath" /\ call.n = 2) => call.again = call.out

\* normpath has been applied twice to an absolute path with an empty
\* component, which it changed.
NormpathIdempotentWitness ==
  /\ call.fn = "normpath" /\ call.n = 2
  /\ call.in = <<SEP, SEP, "a">>
  /\ call.out = <<SEP, "a">>
  /\ call.again = call.out

\* The separators between the ref names of a decoration.
CommaAt(text) == {i \in 1..Len(text) : text[i] = ","}

RECURSIVE Refs(_)
\* The ref names of a decoration text.
Refs(text) ==
  IF CommaAt(text) = {} THEN {text}
  ELSE {SubSeq(text, 1, MinOf(CommaAt(text)) - 1)}
       \cup Refs(SubSeq(text, MinOf(CommaAt(text)) + 1, Len(text)))

\* A ref name of the form release_<dotted-numeric-version>: the word, then
\* digits separated by single dots.
IsReleaseRef(r) ==
  /\ Len(r) >= 2
  /\ r[1] = "release_"
  /\ \A i \in 2..Len(r) : InClass(r[i])
  /\ r[2] = "1" /\ r[Len(r)] = "1"
  /\ \A i \in 2..(Len(r) - 1) : ~(r[i] = "." /\ r[i + 1] = ".")

\* C7 as stated: when the decoration text holds a ref name of the form
\* release_<dotted-numeric-version>, get_current_git_branch returns such a
\* ref name of the text in full; when it holds none, it raises.
BranchInFull ==
  (call.fn = "get_current_git_branch" /\ call.n = 1) =>
    IF \E r \in Refs(call.in) : IsReleaseRef(r)
    THEN call.raised = "" /\ call.out \in Refs(call.in) /\ IsReleaseRef(call.out)
    ELSE call.raised = "ValueError"

\* C4 as stated: maybe_makedirs raises when a regular file is at the path,
\* and a second call on a path the first call returned for returns as well
\* and leaves a directory there.
MakedirsDistinguishes ==
  /\ (call.fn = "maybe_makedirs" /\ call.n >= 1 /\ call.before = "file") =>
       call.raised # ""
  /\ (call.fn = "maybe_makedirs" /\ call.n = 2 /\ call.first = "") =>
       call.raised = "" /\ PathIsDir(fs, cwd, call.in)

====
